---------------------------- MODULE Spec2Model ----------------------------
(***************************************************************************)
(* Evolution Studio MCP: the stdio JSON-RPC client of test_mcp.py          *)
(* (send_request, send_notification, main) running against the Tool        *)
(* Process of main.py (three tool handlers behind a line-delimited         *)
(* JSON-RPC dispatcher).  The two sides share nothing but the three pipes  *)
(* of the process handle.                                                  *)
(***************************************************************************)
EXTENDS Integers, Sequences, FiniteSets, TLC

\* ------------------------------------------------------------------ bounds
\* Requests a free-form caller issues on one process handle.
MaxCalls == 2
\* Unterminated fragments (bytes with no newline) the Tool Process may write.
MaxFrag == 1
\* Teardowns (terminate-then-wait) a free-form caller runs on one handle.
MaxTeardowns == 2
\* Messages written to a Tool Process that is looked at by itself.
MaxFeed == 3

\* ------------------------------------------------------------------ values
\* A Notification carries no id.
NoId == -1

NoExc == [type |-> "none", method |-> "none", stderr |-> <<>>]

\* Python's None as a return value, and "the call has not returned".
NoneVal == [kind |-> "None"]
NoRet == [kind |-> "noret"]

NoReq == [id |-> NoId, method |-> "none", tool |-> "none"]

\* A result mapping: the keys it carries and the value under "status"
\* ("absent" when the mapping has no such key); tools: the descriptor names
\* of a tools/list result; message, enhanced, backend: what kind of value
\* is under "message", "enhanced_prompt" and "backend_status".
Mapping(keys, status) ==
    [keys |-> keys, status |-> status, tools |-> <<>>, message |-> "absent",
     enhanced |-> "absent", backend |-> "absent"]

\* ---------------------------------------------------------------- requests
InitRequest == [id |-> 0, method |-> "initialize", tool |-> "none"]
InitializedNote == [id |-> NoId, method |-> "initialized", tool |-> "none"]
ToolsRequest == [id |-> 1, method |-> "tools/list", tool |-> "none"]
CallRequest == [id |-> 2, method |-> "tools/call", tool |-> "list_models"]
GpuRequest == [id |-> 3, method |-> "tools/call", tool |-> "gpu_status"]

\* The four requests of main, in program order.
MainRequests == <<InitRequest, ToolsRequest, CallRequest, GpuRequest>>

\* Mutant of ToolNames: gpu_status was never registered.
ToolNamesTwo == <<"generate_image", "list_models">>

\* The registered tools, in the order of their @mcp.tool() decorators.
ToolNames == <<"generate_image", "list_models", "gpu_status">>

\* What a free-form caller may put in a Request (the id is the caller's):
\* the handshake, and the one tool main never calls.
ApiShapes ==
    {[method |-> "initialize", tool |-> "none"],
     [method |-> "tools/call", tool |-> "generate_image"]}

\* What any client may write to the Tool Process: every method, every tool.
ServerShapes ==
    {[method |-> "initialize", tool |-> "none"],
     [method |-> "initialized", tool |-> "none"],
     [method |-> "tools/list", tool |-> "none"]}
    \cup {[method |-> "tools/call", tool |-> t] :
            t \in {"generate_image", "list_models", "gpu_status"}}

\* ------------------------------------------------------------ tool handlers
\* The environment one tools/call runs in.
Envs ==
    [key : BOOLEAN,                          \* GEMINI_API_KEY is set
     gen : {"ok", "echo", "empty", "raise"}, \* model.generate_content(..).text
     comfy : {"online", "refused", "timeout"}, \* GET 127.0.0.1:8188
     dir : {"missing", "files", "unreadable"}, \* /mnt/scratch/models/GGUF
     smi : {"ok", "nonzero", "missing", "timeout", "fields"}] \* nvidia-smi

\* The environment of a call whose handler looks at none of it.
DefaultEnv == [key |-> FALSE, gen |-> "ok", comfy |-> "refused",
               dir |-> "missing", smi |-> "ok"]

\* Mutant of GetGenaiModel: no memo test, every call with a key builds a
\* new client.
GetGenaiModelNoMemo(memo, env) ==
    IF ~env.key THEN [raised |-> TRUE, memo |-> memo]
    ELSE [raised |-> FALSE,
          memo |-> IF memo = "model" THEN "model2" ELSE "model"]

\* Mutant of GetGenaiModel: a failed lookup of the key is remembered.
GetGenaiModelCachesFailure(memo, env) ==
    IF memo = "model" THEN [raised |-> FALSE, memo |-> memo]
    ELSE IF memo = "failed" \/ ~env.key
         THEN [raised |-> TRUE, memo |-> "failed"]
    ELSE [raised |-> FALSE, memo |-> "model"]

\* _get_genai_model: [raised, memo'] for memo in {"None", "model"}.
GetGenaiModel(memo, env) ==
    IF memo # "None" THEN [raised |-> FALSE, memo |-> memo]
    ELSE IF ~env.key THEN [raised |-> TRUE, memo |-> memo]
    ELSE [raised |-> FALSE, memo |-> "model"]

\* {"status": "error", "message": str(e)}
ErrorMapping == [Mapping({"status", "message"}, "error")
                   EXCEPT !.message = "str(e)"]

\* The text model.generate_content(...) answered with: a prompt of its own
\* ("ok"), the caller's prompt unchanged ("echo"), or nothing ("empty").
EnhancedPrompt(env) ==
    CASE env.gen = "ok" -> "text"
      [] env.gen = "echo" -> "prompt"
      [] OTHER -> "empty"

\* Mutant of GenerateImage: the probe's ConnectionError is not caught by
\* the inner try and reaches the outer except.
GenerateImageProbeUncaught(memo, env) ==
    LET g == GetGenaiModel(memo, env)
    IN  IF g.raised \/ env.gen = "raise"
             THEN [result |-> ErrorMapping, memo |-> g.memo,
                   printed |-> FALSE]
        ELSE IF env.comfy # "online"
             THEN [result |-> ErrorMapping, memo |-> g.memo,
                   printed |-> TRUE]
        ELSE [result |-> [Mapping({"status", "original_prompt",
                                   "enhanced_prompt", "backend_status"},
                                  "success")
                            EXCEPT !.enhanced = EnhancedPrompt(env),
                                   !.backend = "ONLINE"],
              memo |-> g.memo, printed |-> TRUE]

\* generate_image: [result, memo, printed]; printed: the handler ran
\* print(...) on its standard output before returning.
GenerateImage(memo, env) ==
    LET g == GetGenaiModel(memo, env)
    IN  IF g.raised
             THEN [result |-> ErrorMapping, memo |-> g.memo,
                   printed |-> FALSE]
        ELSE IF env.gen = "raise"
             THEN [result |-> ErrorMapping, memo |-> g.memo,
                   printed |-> FALSE]
        ELSE IF env.comfy = "timeout"
             THEN [result |-> ErrorMapping, memo |-> g.memo,
                   printed |-> TRUE]
        ELSE [result |-> [Mapping({"status", "original_prompt",
                                   "enhanced_prompt", "backend_status"},
                                  "success")
                            EXCEPT !.enhanced = EnhancedPrompt(env),
                                   !.backend = IF env.comfy = "online"
                                               THEN "ONLINE" ELSE "OFFLINE"],
              memo |-> g.memo, printed |-> TRUE]

\* Mutant of ListModels: no path.exists() test before path.iterdir().
ListModelsNoExistsTest(env) ==
    CASE env.dir = "files" ->
           [raised |-> FALSE,
            result |-> Mapping({"category", "models", "count"}, "absent")]
      [] OTHER ->
           [raised |-> TRUE, result |-> Mapping({}, "absent")]

\* list_models: [raised, result].
ListModels(env) ==
    CASE env.dir = "files" ->
           [raised |-> FALSE,
            result |-> Mapping({"category", "models", "count"}, "absent")]
      [] env.dir = "missing" ->
           [raised |-> FALSE,
            result |-> [Mapping({"status", "message"}, "empty")
                          EXCEPT !.message = "text"]]
      [] OTHER ->
           [raised |-> TRUE, result |-> Mapping({}, "absent")]

\* gpu_status: the result mapping.
GpuStatus(env) ==
    CASE env.smi = "ok" ->
           Mapping({"vram_used", "vram_total", "gpu_utilization"}, "absent")
      [] env.smi = "nonzero" ->
           [Mapping({"status", "message"}, "error") EXCEPT !.message = "text"]
      [] OTHER -> ErrorMapping


\* ------------------------------------------------------------------- state
VARIABLES
    pc,         \* the client's position
    step,       \* main: index into MainRequests of the current request
    req,        \* send_request: the request argument
    ready,      \* send_request: select's answer ("unset", "yes", "no")
    polled,     \* send_request: server.poll() ("unset", "None", "exited")
    ret,        \* the value the last finished send_request returned
    exc,        \* the exception propagating in the client
    nextId,     \* free-form caller: the id of its next Request
    teardowns,  \* times server.terminate() has run
    returncode, \* the handle's returncode attribute ("None" until reaped)
    proc,       \* the Tool Process: "starting", "running", "exited"
    exitcode,   \* the status the process exited with
    sigterm,    \* a SIGTERM is pending on the process
    stdin,      \* lines in the stdin pipe, not yet read by the process
    stdout,     \* complete lines in the stdout pipe
    fragAt,     \* where the stream's unterminated tail is: "none", "pipe", "rbuf"
    rbuf,       \* complete lines in the client's buffered reader
    stderr,     \* what the process wrote on stderr
    printBuf,   \* print() lines in the process's block-buffered sys.stdout
    genai,      \* main.py's _genai_model memo: "None" or "model"
    nfrag,      \* fragments written so far
    wrote,      \* history: every message the client wrote, in order
    answered,   \* history: ids of the requests the process has answered
    served,     \* history: the message the process served last, and how
    procAtCall, \* history: proc when the current send_request began
    initRet     \* history: what send_request(init_request) returned

vars == <<pc, step, req, ready, polled, ret, exc, nextId, teardowns,
          returncode, proc, exitcode, sigterm, stdin, stdout, fragAt, rbuf,
          stderr, printBuf, genai, nfrag, wrote, answered, procAtCall,
          initRet, served>>

clientVars == <<pc, step, req, ready, polled, ret, exc, nextId, teardowns,
                returncode, rbuf, wrote, procAtCall, initRet>>
procVars == <<proc, exitcode, stderr, printBuf, genai, nfrag, answered,
              served>>

\* No message has been served yet.
NotServed == [m |-> NoReq, env |-> DefaultEnv, memo |-> "None",
              lines |-> <<>>]

\* Popen(...) has returned: three empty pipes, a process that has not yet
\* run a line of main.py.
InitHandle ==
    /\ step = 0 /\ req = NoReq /\ ready = "unset" /\ polled = "unset"
    /\ ret = NoRet /\ exc = NoExc /\ nextId = 0 /\ teardowns = 0
    /\ returncode = "None" /\ proc = "starting" /\ exitcode = "None"
    /\ sigterm = FALSE /\ stdin = <<>> /\ stdout = <<>> /\ fragAt = "none"
    /\ rbuf = <<>> /\ stderr = <<>> /\ printBuf = 0 /\ genai = "None"
    /\ nfrag = 0 /\ wrote = <<>> /\ answered = {} /\ procAtCall = "unset"
    /\ initRet = NoRet /\ served = NotServed

\* main, entering the try block.
Init == InitHandle /\ pc = "call"

\* A caller holding a fresh handle.
InitApi == InitHandle /\ pc = "idle"

\* ------------------------------------------------------------ wire format
\* One complete line of the response stream.
ResponseLine(id, ok, result) ==
    [kind |-> "json", id |-> id, ok |-> ok, result |-> result]
\* The line print() wrote.
PrintLine == [kind |-> "print", id |-> NoId, ok |-> FALSE,
              result |-> Mapping({}, "absent")]
\* A line that began as an unterminated fragment.
FragLine == [kind |-> "frag", id |-> NoId, ok |-> FALSE,
             result |-> Mapping({}, "absent")]

\* json.loads(response_str) raises on a line that is not JSON.
JsonLoadsRaises(line) == line.kind # "json"

\* What the process's write of complete lines leaves in the pipe: bytes
\* after an unterminated fragment end that fragment's line.
Emit(lines) ==
    IF lines = <<>> THEN stdout
    ELSE IF fragAt # "none" THEN stdout \o <<FragLine>> \o Tail(lines)
    ELSE stdout \o lines
FragAfterEmit(lines) == IF lines = <<>> THEN fragAt ELSE "none"

\* ------------------------------------------------------------ Tool Process
\* main.py reaches mcp.run(): the banner is on stderr.
ProcStart ==
    /\ proc = "starting"
    /\ proc' = "running"
    /\ stderr' = Append(stderr, "banner")
    /\ UNCHANGED <<clientVars, exitcode, sigterm, stdin, stdout, fragAt,
                   printBuf, genai, nfrag, answered, served>>

\* The dispatcher's answer to one message: [lines, memo, printed].
Dispatch(m, memo, env, initOk) ==
    CASE m.method = "initialize" ->
           [lines |-> <<ResponseLine(m.id, initOk,
                                     Mapping({"protocolVersion",
                                              "capabilities", "serverInfo"},
                                             "absent"))>>,
            memo |-> memo, printed |-> FALSE]
      [] m.method = "tools/list" ->
           [lines |-> <<ResponseLine(m.id, TRUE,
                          [Mapping({"tools"}, "absent")
                             EXCEPT !.tools = ToolNames])>>,
            memo |-> memo, printed |-> FALSE]
      [] m.method = "tools/call" /\ m.tool = "generate_image" ->
           LET g == GenerateImage(memo, env)
           IN  [lines |-> <<ResponseLine(m.id, TRUE, g.result)>>,
                memo |-> g.memo, printed |-> g.printed]
      [] m.method = "tools/call" /\ m.tool = "list_models" ->
           LET l == ListModels(env)
           IN  [lines |-> <<ResponseLine(m.id, ~l.raised, l.result)>>,
                memo |-> memo, printed |-> FALSE]
      [] m.method = "tools/call" /\ m.tool = "gpu_status" ->
           [lines |-> <<ResponseLine(m.id, TRUE, GpuStatus(env))>>,
            memo |-> memo, printed |-> FALSE]
      [] OTHER -> \* a Notification: nothing is written
           [lines |-> <<>>, memo |-> memo, printed |-> FALSE]

\* n print() lines.
PrintLines(n) == [i \in 1..n |-> PrintLine]

\* The environments told apart where only the client is looked at: what
\* text the model answered with changes nothing the client does.
ClientEnvs == {x \in Envs : x.gen \in {"ok", "raise"}}

\* What is outside the program's control when one message is served: the
\* environment (one of E) the handler it reaches runs in, whether the
\* dispatcher accepts an initialize, and whether a print() reaches the pipe
\* at once.
Choices(m, E) ==
    CASE m.method = "initialize" ->
           {[env |-> DefaultEnv, initOk |-> b, flush |-> FALSE] :
              b \in BOOLEAN}
      [] m.method = "tools/call" /\ m.tool = "generate_image" ->
           {[env |-> e, initOk |-> TRUE, flush |-> f] :
              e \in {x \in E : x.dir = DefaultEnv.dir
                                  /\ x.smi = DefaultEnv.smi},
              f \in BOOLEAN}
      [] m.method = "tools/call" /\ m.tool = "list_models" ->
           {[env |-> e, initOk |-> TRUE, flush |-> FALSE] :
              e \in {x \in E : x.key = DefaultEnv.key
                                  /\ x.gen = DefaultEnv.gen
                                  /\ x.comfy = DefaultEnv.comfy
                                  /\ x.smi = DefaultEnv.smi}}
      [] m.method = "tools/call" /\ m.tool = "gpu_status" ->
           {[env |-> e, initOk |-> TRUE, flush |-> FALSE] :
              e \in {x \in E : x.key = DefaultEnv.key
                                  /\ x.gen = DefaultEnv.gen
                                  /\ x.comfy = DefaultEnv.comfy
                                  /\ x.dir = DefaultEnv.dir}}
      [] OTHER -> {[env |-> DefaultEnv, initOk |-> TRUE, flush |-> FALSE]}

\* mcp.run() reads one line of stdin and serves it under choice c.  A
\* handler's print() goes to the block-buffered sys.stdout: it reaches the
\* pipe at once (the buffer is full, or the stream is unbuffered), before the
\* response, or it stays in the buffer.
ServeWith(c) ==
    LET m == Head(stdin)
        d == Dispatch(m, genai, c.env, c.initOk)
        held == IF d.printed THEN printBuf + 1 ELSE printBuf
        out == IF d.printed /\ c.flush
               THEN PrintLines(held) \o d.lines ELSE d.lines
    IN  /\ stdout' = Emit(out)
        /\ fragAt' = FragAfterEmit(out)
        /\ genai' = d.memo
        /\ printBuf' = IF d.printed /\ c.flush THEN 0 ELSE held
        /\ answered' = IF d.lines = <<>> THEN answered
                       ELSE answered \cup {m.id}
        /\ stdin' = Tail(stdin)

\* The Tool Process serves the next message of the client.
ProcServe ==
    /\ proc = "running"
    /\ stdin # <<>>
    /\ \E c \in Choices(Head(stdin), ClientEnvs) : ServeWith(c)
    /\ UNCHANGED <<clientVars, proc, exitcode, sigterm, stderr, nfrag,
                   served>>

\* The same step, in any environment, with a record of what was served: the
\* message, the environment, the memo before, and the lines answered.
ProcServeLogged ==
    /\ proc = "running"
    /\ stdin # <<>>
    /\ \E c \in Choices(Head(stdin), Envs) :
         /\ ServeWith(c)
         /\ served' = [m |-> Head(stdin), env |-> c.env, memo |-> genai,
                       lines |-> Dispatch(Head(stdin), genai, c.env,
                                          c.initOk).lines]
    /\ UNCHANGED <<clientVars, proc, exitcode, sigterm, stderr, nfrag>>

\* The process writes bytes that end in no newline (a flush that cuts a
\* line, a write interrupted half way).
ProcPartial ==
    /\ proc = "running"
    /\ fragAt = "none"
    /\ nfrag < MaxFrag
    /\ fragAt' = "pipe"
    /\ nfrag' = nfrag + 1
    /\ UNCHANGED <<clientVars, proc, exitcode, sigterm, stdin, stdout, stderr,
                   printBuf, genai, answered, served>>

\* The process ends by itself (startup error, crash, kill -9 from outside):
\* the kernel closes its ends of the pipes.  An interpreter that shuts down
\* in order ("1", an uncaught exception) flushes sys.stdout first.
ProcExit ==
    /\ proc # "exited"
    /\ proc' = "exited"
    /\ \E code \in {"1", "-9"} :
         /\ exitcode' = code
         /\ stderr' = IF code = "1" THEN Append(stderr, "traceback")
                      ELSE stderr
         /\ LET out == IF code = "-9" THEN <<>> ELSE PrintLines(printBuf)
            IN  /\ stdout' = Emit(out)
                /\ fragAt' = FragAfterEmit(out)
    /\ printBuf' = 0
    /\ sigterm' = FALSE
    /\ stdin' = <<>>
    /\ UNCHANGED <<clientVars, genai, nfrag, answered, served>>

\* SIGTERM is delivered and has its default effect.
ProcTermExit ==
    /\ proc # "exited"
    /\ sigterm
    /\ proc' = "exited"
    /\ exitcode' = "-15"
    /\ sigterm' = FALSE
    /\ stdin' = <<>>
    /\ printBuf' = 0
    /\ UNCHANGED <<clientVars, stdout, fragAt, stderr, genai, nfrag,
                   answered, served>>

\* SIGTERM is delivered to a process that handles or ignores it and goes on.
ProcTermIgnore ==
    /\ proc # "exited"
    /\ sigterm
    /\ sigterm' = FALSE
    /\ UNCHANGED <<clientVars, proc, exitcode, stdin, stdout, fragAt, stderr,
                   printBuf, genai, nfrag, answered, served>>

ProcNext ==
    \/ ProcStart
    \/ ProcServe
    \/ ProcPartial
    \/ ProcExit
    \/ ProcTermExit
    \/ ProcTermIgnore

\* ------------------------------------------------------------ send_request
BrokenPipeError == [type |-> "BrokenPipeError", method |-> "none",
                    stderr |-> <<>>]
\* RuntimeError(f"Server exited early. Stderr:\n{err}")
ServerExitedError(err) == [type |-> "RuntimeError", method |-> "none",
                           stderr |-> err]
\* Mutant of TimeoutErrorFor: the message names no method.
TimeoutErrorNoMethod(request) == [type |-> "TimeoutError", method |-> "none",
                                 stderr |-> <<>>]

\* TimeoutError(f"No response after {timeout}s for {request.get('method')}")
TimeoutErrorFor(request) == [type |-> "TimeoutError",
                             method |-> request.method, stderr |-> <<>>]
JSONDecodeError == [type |-> "JSONDecodeError", method |-> "none",
                    stderr |-> <<>>]

\* server.stdin.write(line); server.stdin.flush(): the line is in the pipe,
\* or the pipe has no reader left and the write raises.
StdinWrite(m, nextPc) ==
    IF proc = "exited"
    THEN /\ exc' = BrokenPipeError
         /\ pc' = "raised"
         /\ UNCHANGED <<stdin, wrote>>
    ELSE /\ stdin' = Append(stdin, m)
         /\ wrote' = Append(wrote, m)
         /\ exc' = exc
         /\ pc' = nextPc

\* select.select([server.stdout], [], [], timeout) reports the descriptor
\* readable: bytes are in the pipe, or its write end is closed.
Readable == stdout # <<>> \/ fragAt = "pipe" \/ proc = "exited"

SR_Write ==
    /\ pc = "sr_write"
    /\ StdinWrite(req, "sr_select")
    /\ procAtCall' = proc
    /\ UNCHANGED <<step, req, ready, polled, ret, nextId, teardowns,
                   returncode, rbuf, initRet, procVars, sigterm, stdout,
                   fragAt>>

SR_SelectReady ==
    /\ pc = "sr_select"
    /\ Readable
    /\ ready' = "yes"
    /\ pc' = "sr_read"
    /\ UNCHANGED <<step, req, polled, ret, exc, nextId, teardowns, returncode,
                   rbuf, wrote, procAtCall, initRet, procVars, sigterm, stdin,
                   stdout, fragAt>>

SR_SelectTimeout ==
    /\ pc = "sr_select"
    /\ ~Readable
    /\ ready' = "no"
    /\ pc' = "sr_poll"
    /\ UNCHANGED <<step, req, polled, ret, exc, nextId, teardowns, returncode,
                   rbuf, wrote, procAtCall, initRet, procVars, sigterm, stdin,
                   stdout, fragAt>>

\* What the not-ready branch raises, given server.poll().
NotReadyError(request, exited, err) ==
    IF exited THEN ServerExitedError(err) ELSE TimeoutErrorFor(request)

SR_Poll ==
    /\ pc = "sr_poll"
    /\ polled' = IF proc = "exited" THEN "exited" ELSE "None"
    /\ returncode' = IF proc = "exited" THEN exitcode ELSE returncode
    /\ exc' = NotReadyError(req, proc = "exited", stderr)
    /\ pc' = "raised"
    /\ UNCHANGED <<step, req, ready, ret, nextId, teardowns, rbuf, wrote,
                   procAtCall, initRet, procVars, sigterm, stdin, stdout,
                   fragAt>>

\* What send_request does with the line readline() gave it
\* (line 27): [raised, value].
ParseLine(empty, line) ==
    IF empty THEN [raised |-> FALSE, value |-> NoneVal]
    ELSE IF JsonLoadsRaises(line) THEN [raised |-> TRUE, value |-> NoRet]
    ELSE [raised |-> FALSE, value |-> line]

Finish(p) ==
    /\ ret' = p.value
    /\ exc' = IF p.raised THEN JSONDecodeError ELSE exc
    /\ pc' = IF p.raised THEN "raised" ELSE "return"

\* readline(): a complete line is in the reader's buffer.
SR_ReadLine ==
    /\ pc = "sr_read"
    /\ rbuf # <<>>
    /\ Finish(ParseLine(FALSE, Head(rbuf)))
    /\ rbuf' = Tail(rbuf)
    /\ UNCHANGED <<step, req, ready, polled, nextId, teardowns, returncode,
                   wrote, procAtCall, initRet, procVars, sigterm, stdin,
                   stdout, fragAt>>

\* readline(): the buffer holds no complete line; read() takes what the pipe
\* holds, and readline goes on looking for a newline.
SR_ReadFill ==
    /\ pc = "sr_read"
    /\ rbuf = <<>>
    /\ stdout # <<>> \/ fragAt = "pipe"
    /\ rbuf' = stdout
    /\ stdout' = <<>>
    /\ fragAt' = IF fragAt = "pipe" THEN "rbuf" ELSE fragAt
    /\ UNCHANGED <<pc, step, req, ready, polled, ret, exc, nextId, teardowns,
                   returncode, wrote, procAtCall, initRet, procVars, sigterm,
                   stdin>>

\* readline(): end of file; it returns what is left, "" or an unterminated
\* fragment.
SR_ReadEOF ==
    /\ pc = "sr_read"
    /\ rbuf = <<>> /\ stdout = <<>> /\ fragAt # "pipe"
    /\ proc = "exited"
    /\ Finish(ParseLine(fragAt = "none", FragLine))
    /\ fragAt' = "none"
    /\ UNCHANGED <<step, req, ready, polled, nextId, teardowns, returncode,
                   rbuf, wrote, procAtCall, initRet, procVars, sigterm, stdin,
                   stdout>>

SendRequest ==
    \/ SR_Write
    \/ SR_SelectReady
    \/ SR_SelectTimeout
    \/ SR_Poll
    \/ SR_ReadLine
    \/ SR_ReadFill
    \/ SR_ReadEOF

\* ---------------------------------------------------------------- shutdown
ProcessLookupError == [type |-> "ProcessLookupError", method |-> "none",
                       stderr |-> <<>>]

\* Mutant of Terminate: the signal is sent without looking at the process
\* first, and sending it to a process that is gone raises.
TerminateBlind ==
    /\ pc = "terminate"
    /\ teardowns' = teardowns + 1
    /\ sigterm' = (proc # "exited")
    /\ exc' = IF proc = "exited" THEN ProcessLookupError ELSE exc
    /\ pc' = "wait"
    /\ UNCHANGED <<step, req, ready, polled, ret, nextId, returncode, rbuf,
                   wrote, procAtCall, initRet, procVars, stdin, stdout,
                   fragAt>>

\* server.terminate(): Popen polls first and signals only a live process.
Terminate ==
    /\ pc = "terminate"
    /\ teardowns' = teardowns + 1
    /\ returncode' = IF proc = "exited" THEN exitcode ELSE returncode
    /\ sigterm' = IF proc = "exited" THEN sigterm ELSE TRUE
    /\ pc' = "wait"
    /\ UNCHANGED <<step, req, ready, polled, ret, exc, nextId, rbuf, wrote,
                   procAtCall, initRet, procVars, stdin, stdout, fragAt>>

\* server.wait(): returns once the process has exited.
Wait ==
    /\ pc = "wait"
    /\ proc = "exited"
    /\ returncode' = exitcode
    /\ pc' = "done"
    /\ UNCHANGED <<step, req, ready, polled, ret, exc, nextId, teardowns,
                   rbuf, wrote, procAtCall, initRet, procVars, sigterm, stdin,
                   stdout, fragAt>>

\* -------------------------------------------------------------------- main
\* Mutant of OnRaise: no finally clause, the exception leaves main at once.
OnRaiseNoFinally == "done"

\* Mutant of OnRaise: the exception is swallowed and the request retried.
OnRaiseRetry == "call"

\* Where an exception raised inside the try block takes main.
OnRaise == "terminate"

\* _ = send_request(...), response = send_request(...)
MainCall ==
    /\ pc = "call"
    /\ req' = MainRequests[step + 1]
    /\ ready' = "unset" /\ polled' = "unset" /\ ret' = NoRet
    /\ pc' = "sr_write"
    /\ UNCHANGED <<step, exc, nextId, teardowns, returncode, rbuf, wrote,
                   procAtCall, initRet, procVars, sigterm, stdin, stdout,
                   fragAt>>

\* The statements after a send_request that returned.
MainReturn ==
    /\ pc = "return"
    /\ initRet' = IF step = 0 THEN ret ELSE initRet
    /\ step' = IF step \in {1, 2} THEN step + 1 ELSE step
    /\ pc' = CASE step = 0 -> "notify"
               [] step = 3 -> "terminate"
               [] OTHER -> "call"
    /\ UNCHANGED <<req, ready, polled, ret, exc, nextId, teardowns,
                   returncode, rbuf, wrote, procAtCall, procVars, sigterm,
                   stdin, stdout, fragAt>>

\* Mutant of MainNotify: the notification is sent the way a Request is, and
\* its sender goes on to wait for a response line.
MainNotifyWaits ==
    /\ pc = "notify"
    /\ StdinWrite(InitializedNote, "sr_select")
    /\ step' = IF proc = "exited" THEN step ELSE 1
    /\ UNCHANGED <<req, ready, polled, ret, nextId, teardowns, returncode,
                   rbuf, procAtCall, initRet, procVars, sigterm, stdout,
                   fragAt>>

\* send_notification(server, {... "initialized" ...}); time.sleep(0.1)
MainNotify ==
    /\ pc = "notify"
    /\ StdinWrite(InitializedNote, "call")
    /\ step' = IF proc = "exited" THEN step ELSE 1
    /\ UNCHANGED <<req, ready, polled, ret, nextId, teardowns, returncode,
                   rbuf, procAtCall, initRet, procVars, sigterm, stdout,
                   fragAt>>

\* An exception leaves the try block: the finally clause runs.
MainRaise ==
    /\ pc = "raised"
    /\ pc' = OnRaise
    /\ UNCHANGED <<step, req, ready, polled, ret, exc, nextId, teardowns,
                   returncode, rbuf, wrote, procAtCall, initRet, procVars,
                   sigterm, stdin, stdout, fragAt>>

MainNext ==
    \/ MainCall
    \/ MainReturn
    \/ MainNotify
    \/ MainRaise
    \/ SendRequest
    \/ Terminate
    \/ Wait

Next == MainNext \/ ProcNext

Spec == Init /\ [][Next]_vars

\* The client is a running program: each of its steps that stays possible is
\* taken.  A pending signal is delivered.  Nothing obliges the Tool Process
\* to do anything else.
FairSpec ==
    /\ Spec
    /\ WF_vars(MainNext)
    /\ WF_vars(ProcTermExit \/ ProcTermIgnore)

\* ------------------------------------------------------- a free-form caller
\* Any program that drives one handle through send_request, one call at a
\* time, catching what a call raises, and
\* tears the handle down when it likes.
ApiCall ==
    /\ pc = "idle"
    /\ nextId < MaxCalls
    /\ \E shape \in ApiShapes :
         req' = [id |-> nextId, method |-> shape.method, tool |-> shape.tool]
    /\ nextId' = nextId + 1
    /\ ready' = "unset" /\ polled' = "unset" /\ ret' = NoRet /\ exc' = NoExc
    /\ pc' = "sr_write"
    /\ UNCHANGED <<step, teardowns, returncode, rbuf, wrote, procAtCall,
                   initRet, procVars, sigterm, stdin, stdout, fragAt>>

\* The call is over: its value, or the exception the caller caught.
ApiReturn ==
    /\ pc \in {"return", "raised"}
    /\ initRet' = IF pc = "return" /\ req.method = "initialize" THEN ret
                  ELSE initRet
    /\ pc' = "idle"
    /\ UNCHANGED <<step, req, ready, polled, ret, exc, nextId, teardowns,
                   returncode, rbuf, wrote, procAtCall, procVars, sigterm,
                   stdin, stdout, fragAt>>

ApiTeardown ==
    /\ pc \in {"idle", "done"}
    /\ teardowns < MaxTeardowns
    /\ pc' = "terminate"
    /\ UNCHANGED <<step, req, ready, polled, ret, exc, nextId, teardowns,
                   returncode, rbuf, wrote, procAtCall, initRet, procVars,
                   sigterm, stdin, stdout, fragAt>>

ApiNext ==
    \/ ApiCall
    \/ ApiReturn
    \/ ApiTeardown
    \/ SendRequest
    \/ Terminate
    \/ Wait

NextApi == ApiNext \/ ProcNext

ApiSpec == InitApi /\ [][NextApi]_vars

\* ------------------------------------------- the Tool Process under any client
\* A handle on which nothing has been written yet.
InitServer == InitHandle /\ pc = "feeding"

\* Some client writes one line to the stdin of the process: a Request with
\* the next id, or a Notification.
Feed ==
    /\ pc = "feeding"
    /\ Len(wrote) < MaxFeed
    /\ \E shape \in ServerShapes :
         LET isNote == shape.method = "initialized"
             m == [id |-> IF isNote THEN NoId ELSE nextId,
                   method |-> shape.method, tool |-> shape.tool]
         IN  /\ stdin' = Append(stdin, m)
             /\ wrote' = Append(wrote, m)
             /\ nextId' = IF isNote THEN nextId ELSE nextId + 1
    /\ UNCHANGED <<pc, step, req, ready, polled, ret, exc, teardowns,
                   returncode, rbuf, procAtCall, initRet, procVars, sigterm,
                   stdout, fragAt>>

ServerNext == Feed \/ ProcStart \/ ProcServeLogged

ServerSpec == InitServer /\ [][ServerNext]_vars

\* ================================================================== claims
InSendRequest == pc \in {"sr_write", "sr_select", "sr_poll", "sr_read"}

\* C1: every call of send_request terminates, whatever the Tool Process does
\* (silent, hung, a partial line with no newline, exit): the client never
\* stays inside send_request for ever.  Checked under FairSpec.
C1_SendRequestTerminates == InSendRequest ~> ~InSendRequest

\* C2: whenever send_request returns a Response, that Response's id is the
\* id of the Request passed to that call, also for a call made after an
\* earlier call timed out and its response arrived late.  Checked under
\* ApiSpec.
C2_ResponseIdMatches ==
    (pc = "return" /\ ret.kind = "json") => ret.id = req.id

\* C3: a send_request for a Request the Tool Process exited before
\* answering (it was already gone when the call began) raises the
\* ProcessExited failure carrying the captured stderr text; it raises
\* nothing else and does not return.
C3_ExitedRaisesProcessExited ==
    (pc \in {"return", "raised"} /\ procAtCall = "exited")
        => /\ pc = "raised"
           /\ exc.type = "RuntimeError"
           /\ exc.stderr = stderr

\* C4: when nothing became readable within the timeout and the process is
\* still running, send_request raises one TimeoutError naming the pending
\* request's method, and returns nothing.
C4_TimeoutNamesMethod ==
    (pc \in {"return", "raised"} /\ ready = "no" /\ polled = "None")
        => /\ pc = "raised"
           /\ exc.type = "TimeoutError"
           /\ exc.method = req.method
           /\ ret = NoRet

C4_Witness ==
    /\ pc = "raised" /\ ready = "no" /\ polled = "None"
    /\ req.method = "tools/call"

\* C5: a protocol-level failure is surfaced, never swallowed: a call whose
\* response stream gave an empty line (stream closed) or a line that is not
\* JSON does not return as a completed call; a call returns only with a
\* parsed Response.
C5_ProtocolFailuresSurface == pc = "return" => ret.kind = "json"

\* C6: a tools/list or tools/call Request is written only after the
\* initialize Request got a success Response (one carrying a result) and the
\* initialized Notification was then sent.
C6_HandshakeBeforeTools ==
    \A i \in 1..Len(wrote) :
        wrote[i].method \in {"tools/list", "tools/call"}
            => /\ initRet.kind = "json"
               /\ initRet.ok
               /\ \E j \in 1..(i - 1) : wrote[j] = InitializedNote

\* C7: every line a handler causes to be written on the Tool Process's
\* standard output is one JSON-RPC object: serving a tools/call never puts a
\* line there that is not JSON.  Checked under ApiSpec.
C7_StdoutOnlyJson ==
    \A i \in 1..Len(stdout) : stdout[i].kind # "print"

\* C8: shutdown always completes: once the client starts it, the client's
\* final wait returns, also when the process ignores the termination
\* signal.  Checked under FairSpec.
C8_ShutdownCompletes == (pc = "terminate") ~> (pc = "done")

\* C9: every way the client session ends, after the process was spawned,
\* has run shutdown: terminate() was called and the process is no longer
\* running when main is left.
C9_ShutdownOnEveryExit ==
    pc = "done" => /\ teardowns >= 1
                   /\ proc = "exited"
                   /\ returncode # "None"

C9_Witness == pc = "done" /\ exc.type = "BrokenPipeError"

\* C10: terminate-then-wait on a process that has already exited (by
\* itself, killed, or through an earlier teardown) raises nothing and leaves
\* the handle terminated, with the return code a single teardown leaves.
\* Checked under ApiSpec.
C10_TeardownIdempotent ==
    /\ [](pc = "done" => (proc = "exited" /\ returncode = exitcode))
    /\ [][(pc \in {"terminate", "wait"} /\ proc = "exited" /\ pc' # pc)
             => /\ pc' = (IF pc = "terminate" THEN "wait" ELSE "done")
                /\ exc' = exc
                /\ returncode' = exitcode
                /\ exitcode' = exitcode
                /\ proc' = proc
                /\ sigterm' = sigterm]_vars

C10_Witness == pc = "done" /\ teardowns = 2 /\ exitcode = "-9"

\* The client runs one of its two write statements (send_request line 17-19,
\* send_notification line 32-34).
WriteStatement == pc \in {"sr_write", "notify"} /\ pc' # pc

\* C11: once the Tool Process has exited, or a send_request has found the
\* response stream closed (it returned None), the client runs no further
\* write on the stdin of the process.
C11_NoWriteAfterTermination ==
    [][WriteStatement =>
         ~(proc = "exited" \/ ret = NoneVal \/ initRet = NoneVal)]_vars

\* C12: send_notification writes exactly one line and returns at once,
\* whatever is or is not on the response stream, without reading from it;
\* the process answers no Notification, so the response line the next
\* send_request consumes is the one of the next Request.
C12_NotificationFireAndForget ==
    /\ [](pc = "notify" => ENABLED MainNotify)
    /\ [](NoId \notin answered)
    /\ []((pc = "return" /\ step = 1 /\ ret.kind = "json")
            => ret.id = ToolsRequest.id)
    /\ [][(pc = "notify" /\ pc' # pc) =>
            /\ pc' \in {"call", "raised"}
            /\ pc' = "call" => /\ wrote' = Append(wrote, InitializedNote)
                               /\ stdin' = Append(stdin, InitializedNote)
            /\ pc' = "raised" => wrote' = wrote /\ stdin' = stdin
            /\ rbuf' = rbuf /\ stdout' = stdout /\ fragAt' = fragAt
            /\ ret' = ret]_vars
\* The Notification went out and the next call consumed a response line.
C12_Witness ==
    /\ pc = "return" /\ step = 1 /\ ret.kind = "json"
    /\ \E i \in 1..Len(wrote) : wrote[i] = InitializedNote

\* The Requests the client wrote that the process has not answered.
Outstanding ==
    {i \in 1..Len(wrote) : wrote[i].id # NoId /\ wrote[i].id \notin answered}

ToolServed(tool) ==
    served.m.method = "tools/call" /\ served.m.tool = tool
ServedLine == served.lines[1]
ServedResult == served.lines[1].result
KeyMissing == served.memo = "None" /\ ~served.env.key
HandlerFailed ==
    \/ ToolServed("generate_image")
         /\ (KeyMissing \/ served.env.gen = "raise"
                        \/ served.env.comfy = "timeout")
    \/ ToolServed("list_models") /\ served.env.dir = "unreadable"
    \/ ToolServed("gpu_status") /\ served.env.smi # "ok"

\* C13: whatever fails inside a tool handler, the call is answered with the
\* mapping {status: "error", message}: no exception leaves the handler.
C13_HandlersNeverRaise ==
    (served.m.method = "tools/call" /\ HandlerFailed)
      => /\ ServedLine.ok
         /\ ServedResult.keys = {"status", "message"}
         /\ ServedResult.status = "error"

\* C14: the mapping of every tools/call result has a status field, which is
\* "success" when the tool succeeded and "error", with a message, when it
\* failed (list_models may also say "empty").
C14_ResultCarriesStatus ==
    (served.m.method = "tools/call" /\ ServedLine.ok)
      => /\ "status" \in ServedResult.keys
         /\ HandlerFailed => /\ ServedResult.status = "error"
                             /\ "message" \in ServedResult.keys
         /\ (~HandlerFailed /\ ServedResult.status # "empty")
              => ServedResult.status = "success"

\* The response lines on the stream that answer a tools/list Request.
ListResponses ==
    {i \in 1..Len(stdout) :
       /\ stdout[i].kind = "json"
       /\ \E k \in 1..Len(wrote) : /\ wrote[k].method = "tools/list"
                                    /\ wrote[k].id = stdout[i].id}

\* C15: tools/list changes nothing and always answers the same: every
\* tools/list response of a session carries the three descriptors
\* generate_image, list_models, gpu_status in that order, whatever was
\* called before it, and serving it leaves the memo and the print buffer
\* as they were.
C15_ToolsListConstant ==
    /\ [](\A i \in ListResponses :
            /\ stdout[i].ok
            /\ stdout[i].result.keys = {"tools"}
            /\ stdout[i].result.tools =
                 <<"generate_image", "list_models", "gpu_status">>)
    /\ [](\A i, j \in ListResponses : stdout[i].result = stdout[j].result)
    /\ [][(stdin # <<>> /\ Head(stdin).method = "tools/list"
            /\ stdin' = Tail(stdin))
           => (genai' = genai /\ printBuf' = printBuf
               /\ Len(stdout') = Len(stdout) + 1)]_vars
\* Two tools/list responses with a generate_image call that built the client
\* between them.
C15_Witness ==
    /\ Len(stdout) = 3 /\ ListResponses = {1, 3}
    /\ stdout[2].result.status = "success" /\ genai = "model"

\* C16 as stated: generate_image called while the backend is not listening
\* answers status "success", a backend_status that says offline, and an
\* enhanced_prompt that is a non-empty string different from the prompt.
C16_OfflineBackendSuccess ==
    (ToolServed("generate_image") /\ served.env.comfy = "refused")
      => /\ ServedResult.status = "success"
         /\ ServedResult.backend = "OFFLINE"
         /\ ServedResult.enhanced = "text"

\* C16 amended: generate_image called while the backend is not listening,
\* with the client available (memoized, or the key set) and
\* generate_content answering, answers status "success", the caller's
\* prompt, a backend_status that says offline, and as enhanced_prompt the
\* text generate_content answered with: non-empty and different from the
\* prompt when that text is.
C16_OfflineBackendSuccessAmended ==
    (/\ ToolServed("generate_image") /\ served.env.comfy = "refused"
     /\ ~KeyMissing /\ served.env.gen # "raise")
      => /\ ServedLine.ok
         /\ ServedResult.keys = {"status", "original_prompt",
                                 "enhanced_prompt", "backend_status"}
         /\ ServedResult.status = "success"
         /\ ServedResult.backend = "OFFLINE"
         /\ ServedResult.enhanced # "absent"
         /\ served.env.gen = "ok" => ServedResult.enhanced = "text"
         /\ served.env.gen = "echo" => ServedResult.enhanced = "prompt"
         /\ served.env.gen = "empty" => ServedResult.enhanced = "empty"
C16_Witness ==
    /\ ToolServed("generate_image") /\ served.env.comfy = "refused"
    /\ served.env.key /\ served.env.gen = "ok"
    /\ ServedResult.backend = "OFFLINE"

\* C17: list_models called when the model directory does not exist answers,
\* as an ordinary result, the mapping {status: "empty", message} with a
\* non-empty message.
C17_MissingDirectoryIsEmpty ==
    (ToolServed("list_models") /\ served.env.dir = "missing")
      => /\ ServedLine.ok
         /\ ServedResult.keys = {"status", "message"}
         /\ ServedResult.status = "empty"
         /\ ServedResult.message = "text"
C17_Witness ==
    /\ ToolServed("list_models") /\ served.env.dir = "missing"
    /\ ServedResult.status = "empty"

\* C19: the API client is built at most once in the life of the process:
\* once _genai_model is set no step changes it, and a later generate_image
\* is given the memoized client without the key being looked up again.
C19_ClientBuiltOnce ==
    /\ [][genai # "None" => genai' = genai]_vars
    /\ []((ToolServed("generate_image") /\ served.memo # "None")
            => /\ genai = served.memo
               /\ (served.env.gen # "raise" /\ served.env.comfy # "timeout")
                    => ServedResult.status = "success")
\* A call served from the memo, the key gone from the environment.
C19_Witness ==
    /\ ToolServed("generate_image") /\ served.memo = "model"
    /\ ~served.env.key /\ ServedResult.status = "success"

\* The key is missing: generate_image answers the error mapping and leaves
\* the memo unset, and the other requests are served all the same.
MissingKeyTolerated ==
    /\ (ToolServed("generate_image") /\ KeyMissing)
         => /\ ServedLine.ok
            /\ ServedResult.keys = {"status", "message"}
            /\ ServedResult.status = "error"
            /\ genai = "None"
    /\ (served.m.method = "tools/list" /\ genai = "None")
         => ServedLine.ok /\ Len(ServedResult.tools) = 3
    /\ (ToolServed("list_models") /\ genai = "None"
           /\ served.env.dir = "files")
         => ServedLine.ok /\ "models" \in ServedResult.keys
    /\ (ToolServed("gpu_status") /\ genai = "None"
           /\ served.env.smi = "ok")
         => ServedLine.ok /\ "vram_used" \in ServedResult.keys

\* generate_image is served with the key set and no client built yet.
KeyNowAvailable ==
    ToolServed("generate_image") /\ served.memo = "None" /\ served.env.key

=============================================================================
